---- MODULE Spec2Model ----
(***************************************************************************)
(* Model of the "Revenu disponible" code of the repository:                *)
(*   - QuebecIncomeTaxCalculator (bracket tax, tax reduction, total tax),  *)
(*   - the form driver TaxCalculatorTest, generate_test_cases, run_tests.  *)
(*                                                                         *)
(* Money.  Incomes are whole dollars.  A rate r of the source is written   *)
(* as the integer 10000 * r (0.15 -> 1500, 0.2575 -> 2575, 0.165 -> 1650), *)
(* so every amount returned by the calculator is an exact integer number   *)
(* of 1/10000 dollar.  The rounding of Python's binary floats (of the      *)
(* order of 1e-11 dollar on these amounts) is not modelled.                *)
(***************************************************************************)
EXTENDS Integers, Sequences, FiniteSets, TLC

VARIABLES
    calcs,       \* the QuebecIncomeTaxCalculator objects constructed so far
    ctor,        \* outcome of the latest constructor call
    frames,      \* per worker: the method call it is running / has returned from
    test_cases,  \* run_tests: the list returned by generate_test_cases
    generated,   \* history: the cases as generate_test_cases returned them
    results,     \* run_tests: the list `results`
    driver,      \* the browser session of the TaxCalculatorTest object
    form,        \* the inputs of the HTML form held by the browser
    run,         \* run_tests: control position (pc, index of the current case)
    gen,         \* generate_test_cases: its locals and control position
    rng,         \* the generator of the random module: seed and position
    first,       \* history: the first of two generate_test_cases runs
    orch,        \* the orchestrator: dependency graph, order, one evaluation
    cmp,         \* the differential validator: one call of compare
    last_call,   \* the last method call made on a TaxCalculatorTest object
    dom,         \* commun.js: classes and attributes of the tooltip elements
    clientWidth, \* commun.js: document.documentElement.clientWidth
    event,       \* history: the last event or call handled by commun.js
    boutons,     \* commun.js: the +/- buttons and what they control
    assembly     \* the orchestrator: the result record being assembled

vars == <<calcs, ctor, frames, test_cases, generated, results, driver, form, run,
          gen, rng, first, orch, cmp, last_call, dom, clientWidth, event, boutons,
          assembly>>

calcVars == <<calcs, ctor, frames>>
runVars == <<test_cases, generated, results, driver, form, run>>
genVars == <<gen, rng, first>>
engineVars == <<orch, cmp>>
testerVars == <<last_call>>
pageVars == <<dom, clientWidth, event, boutons>>
recordVars == <<assembly>>

\* what the calculator, run_tests, generate_test_cases and the engine leave
\* alone
notCalcVars == <<runVars, genVars, engineVars, testerVars, pageVars,
                 recordVars>>
notRunVars == <<calcVars, genVars, engineVars, testerVars, pageVars,
                recordVars>>
notGenVars == <<calcVars, runVars, engineVars, testerVars, pageVars,
                recordVars>>
notEngineVars == <<calcVars, runVars, genVars, testerVars, pageVars,
                   recordVars>>
\* a caller of the TaxCalculatorTest methods other than run_tests
notTesterVars == <<calcVars, genVars, engineVars, pageVars, recordVars,
                   test_cases, generated, results, run>>
\* the page script commun.js
notPageVars == <<calcVars, runVars, genVars, engineVars, testerVars, recordVars>>
\* the assembly of the result record
notRecordVars == <<calcVars, runVars, genVars, engineVars, testerVars, pageVars>>

----------------------------------------------------------------------------
(* Bounds of the model *)

\* at most this many calculator objects are constructed in one behaviour
MaxCalcs == 2

\* incomes within this distance of every bracket edge and threshold are evaluated
Radius == 1

\* number of cases run_tests asks generate_test_cases for (5 in the source)
NobsRun == 2

\* generate_test_cases is called with nobs in 0 .. MaxNobs
MaxNobs == 2

----------------------------------------------------------------------------
(* Python values *)

\* float('inf'): larger than every amount that is compared with it
Inf == 2147483647

\* min(a, b) of Python: b only when b < a
PyMin(a, b) == IF b < a THEN b ELSE a

Return(v) == [exc |-> "none", val |-> v]
Raise(e, m) == [exc |-> e, msg |-> m]

----------------------------------------------------------------------------
(* class QuebecIncomeTaxCalculator *)

\* a table whose second 2024 bracket starts one dollar late (a gap)
get_tax_brackets_gap(self) ==
    IF self.year = 2023 THEN Return(<<
        [min |-> 0,      max |-> 46295,  rate |-> 1500],
        [min |-> 46295,  max |-> 92580,  rate |-> 2000],
        [min |-> 92580,  max |-> 112655, rate |-> 2400],
        [min |-> 112655, max |-> Inf,    rate |-> 2575] >>)
    ELSE IF self.year = 2024 THEN Return(<<
        [min |-> 0,      max |-> 47000,  rate |-> 1500],
        [min |-> 47001,  max |-> 94000,  rate |-> 2000],
        [min |-> 94000,  max |-> 114000, rate |-> 2400],
        [min |-> 114000, max |-> Inf,    rate |-> 2575] >>)
    ELSE Raise("ValueError", "Year not supported")

\* a table lookup that falls back to the 2024 table for an unknown year
get_tax_brackets_default(self) ==
    IF self.year = 2023 THEN Return(<<
        [min |-> 0,      max |-> 46295,  rate |-> 1500],
        [min |-> 46295,  max |-> 92580,  rate |-> 2000],
        [min |-> 92580,  max |-> 112655, rate |-> 2400],
        [min |-> 112655, max |-> Inf,    rate |-> 2575] >>)
    ELSE Return(<<
        [min |-> 0,      max |-> 47000,  rate |-> 1500],
        [min |-> 47000,  max |-> 94000,  rate |-> 2000],
        [min |-> 94000,  max |-> 114000, rate |-> 2400],
        [min |-> 114000, max |-> Inf,    rate |-> 2575] >>)

get_tax_brackets(self) ==
    IF self.year = 2023 THEN Return(<<
        [min |-> 0,      max |-> 46295,  rate |-> 1500],
        [min |-> 46295,  max |-> 92580,  rate |-> 2000],
        [min |-> 92580,  max |-> 112655, rate |-> 2400],
        [min |-> 112655, max |-> Inf,    rate |-> 2575] >>)
    ELSE IF self.year = 2024 THEN Return(<<
        [min |-> 0,      max |-> 47000,  rate |-> 1500],
        [min |-> 47000,  max |-> 94000,  rate |-> 2000],
        [min |-> 94000,  max |-> 114000, rate |-> 2400],
        [min |-> 114000, max |-> Inf,    rate |-> 2575] >>)
    ELSE Raise("ValueError", "Year not supported")

\* the for loop of calculate_tax, from bracket i on, with the running total tax
RECURSIVE calculate_tax_loop(_, _, _, _)
calculate_tax_loop(brackets, i, income, tax) ==
    IF i > Len(brackets) THEN tax
    ELSE LET bracket == brackets[i] IN
         IF income > bracket.min
         THEN LET taxable_amount == PyMin(income, bracket.max) - bracket.min
              IN calculate_tax_loop(brackets, i + 1, income,
                                    tax + taxable_amount * bracket.rate)
         ELSE calculate_tax_loop(brackets, i + 1, income, tax)

\* a calculate_tax that taxes every entered bracket up to its upper edge
calculate_tax_full_bracket(self, income) ==
    LET RECURSIVE loop(_, _)
        loop(i, tax) ==
            IF i > Len(self.tax_brackets) THEN tax
            ELSE LET bracket == self.tax_brackets[i] IN
                 IF income > bracket.min /\ bracket.max # Inf
                 THEN loop(i + 1, tax + (bracket.max - bracket.min) * bracket.rate)
                 ELSE IF income > bracket.min
                 THEN loop(i + 1, tax + (income - bracket.min) * bracket.rate)
                 ELSE loop(i + 1, tax)
    IN loop(1, 0)

\* a calculate_tax that restarts every bracket at zero (a jump at each edge)
calculate_tax_whole_income(self, income) ==
    LET RECURSIVE loop(_, _)
        loop(i, tax) ==
            IF i > Len(self.tax_brackets) THEN tax
            ELSE LET bracket == self.tax_brackets[i] IN
                 IF income > bracket.min /\ income <= bracket.max
                 THEN loop(i + 1, income * bracket.rate)
                 ELSE loop(i + 1, tax)
    IN loop(1, 0)

calculate_tax(self, income) ==
    calculate_tax_loop(self.tax_brackets, 1, income, 0)

\* a calculate_tax_reduction whose comparison is reversed
calculate_tax_reduction_flipped(self, income) ==
    IF self.year \notin {2023, 2024}
    THEN Raise("ValueError", "Year not supported")
    ELSE LET reduction_rate == 1650
             reduction_threshold == IF self.year = 2023 THEN 16143 ELSE 16400
         IN IF income >= reduction_threshold
            THEN Return(income * reduction_rate)
            ELSE Return(reduction_threshold * reduction_rate)

\* a calculate_tax_reduction that knows the parameters of 2023 only
calculate_tax_reduction_2023_only(self, income) ==
    IF self.year # 2023
    THEN Raise("ValueError", "Year not supported")
    ELSE LET reduction_rate == 1650
             reduction_threshold == 16143
         IN IF income <= reduction_threshold
            THEN Return(income * reduction_rate)
            ELSE Return(reduction_threshold * reduction_rate)

\* a calculate_tax_reduction with the thresholds of the two years exchanged
calculate_tax_reduction_swapped(self, income) ==
    IF self.year \notin {2023, 2024}
    THEN Raise("ValueError", "Year not supported")
    ELSE LET reduction_rate == 1650
             reduction_threshold == IF self.year = 2023 THEN 16400 ELSE 16143
         IN IF income <= reduction_threshold
            THEN Return(income * reduction_rate)
            ELSE Return(reduction_threshold * reduction_rate)

calculate_tax_reduction(self, income) ==
    IF self.year \notin {2023, 2024}
    THEN Raise("ValueError", "Year not supported")
    ELSE LET reduction_rate == 1650
             reduction_threshold == IF self.year = 2023 THEN 16143 ELSE 16400
         IN IF income <= reduction_threshold
            THEN Return(income * reduction_rate)
            ELSE Return(reduction_threshold * reduction_rate)

\* calculate_total_tax run in one piece
calculate_total_tax(self, income) ==
    LET tax == calculate_tax(self, income)
        reduction == calculate_tax_reduction(self, income)
    IN IF reduction.exc # "none" THEN reduction
       ELSE Return(tax - reduction.val)

----------------------------------------------------------------------------
(* Calls of the calculator.  A worker is one caller (the main program, or  *)
(* one of the independent evaluations of a batch); it runs one method call *)
(* at a time and keeps the returned value until it makes the next call.    *)

Workers == {"w1", "w2"}

\* years a caller may pass to the constructor
YearInputs == {2022, 2023, 2024, 2025}

\* incomes evaluated while calculators are constructed
Incomes == {0, 1000, 16143, 46296, 80000, 120000}

\* the bracket edges and reduction thresholds of the two years
Edges == {0, 16143, 16400, 46295, 47000, 92580, 94000, 112655, 114000}

\* incomes evaluated on the two constructed calculators: around every edge,
\* and the incomes the test-case generator and the usage example use
TaxIncomes ==
    UNION { (e - Radius) .. (e + Radius) : e \in Edges }
    \cup {15000, 30000, 45000, 60000, 75000, 80000, 90000, 120000}

IdleFrame ==
    [pc |-> "idle", op |-> "none", self |-> 0, income |-> 0,
     tax |-> 0, reduction |-> 0, exc |-> "none", ret |-> 0, table |-> <<>>]

\* the frame of a call that has returned val
Returned(op, c, income, val) ==
    [IdleFrame EXCEPT !.pc = "returned", !.op = op, !.self = c,
                      !.income = income, !.ret = val]

\* calculator = QuebecIncomeTaxCalculator(year)
QuebecIncomeTaxCalculator(year) ==
    LET self == [year |-> year]
        brackets == get_tax_brackets(self)
    IN /\ IF brackets.exc # "none"
          THEN /\ ctor' = [year |-> year, exc |-> brackets.exc, obj |-> 0]
               /\ calcs' = calcs
          ELSE /\ Len(calcs) < MaxCalcs
               /\ calcs' = Append(calcs, [year |-> year,
                                          tax_brackets |-> brackets.val])
               /\ ctor' = [year |-> year, exc |-> "none", obj |-> Len(calcs) + 1]
       /\ UNCHANGED frames
       /\ UNCHANGED notCalcVars

\* a get_tax_brackets that hands out the stored list after dropping its
\* unbounded top bracket
call_get_tax_brackets_trimming(w, c) ==
    /\ frames[w].pc = "idle"
    /\ LET stored == calcs[c].tax_brackets
           trimmed == SubSeq(stored, 1, Len(stored) - 1)
       IN /\ calcs' = [calcs EXCEPT ![c].tax_brackets = trimmed]
          /\ frames' = [frames EXCEPT ![w] =
                [IdleFrame EXCEPT !.pc = "returned", !.op = "get_tax_brackets",
                                  !.self = c, !.table = trimmed]]
    /\ UNCHANGED ctor
    /\ UNCHANGED notCalcVars

\* calculator.get_tax_brackets()
call_get_tax_brackets(w, c) ==
    /\ frames[w].pc = "idle"
    /\ LET r == get_tax_brackets(calcs[c])
       IN frames' = [frames EXCEPT ![w] =
             IF r.exc # "none"
             THEN [IdleFrame EXCEPT !.pc = "returned", !.op = "get_tax_brackets",
                                    !.self = c, !.exc = r.exc]
             ELSE [IdleFrame EXCEPT !.pc = "returned", !.op = "get_tax_brackets",
                                    !.self = c, !.table = r.val]]
    /\ UNCHANGED <<calcs, ctor>>
    /\ UNCHANGED notCalcVars

\* a calculate_tax that consumes the brackets it has used
call_calculate_tax_consuming(w, c, income) ==
    /\ frames[w].pc = "idle"
    /\ frames' = [frames EXCEPT ![w] =
          Returned("calculate_tax", c, income, calculate_tax(calcs[c], income))]
    /\ calcs' = [calcs EXCEPT ![c].tax_brackets =
          SelectSeq(calcs[c].tax_brackets, LAMBDA b : ~(income > b.min))]
    /\ UNCHANGED ctor
    /\ UNCHANGED notCalcVars

\* calculator.calculate_tax(income)
call_calculate_tax(w, c, income) ==
    /\ frames[w].pc = "idle"
    /\ frames' = [frames EXCEPT ![w] =
          Returned("calculate_tax", c, income, calculate_tax(calcs[c], income))]
    /\ UNCHANGED <<calcs, ctor>>
    /\ UNCHANGED notCalcVars

\* calculator.calculate_tax_reduction(income)
call_calculate_tax_reduction(w, c, income) ==
    /\ frames[w].pc = "idle"
    /\ LET r == calculate_tax_reduction(calcs[c], income)
       IN frames' = [frames EXCEPT ![w] =
             IF r.exc # "none"
             THEN [Returned("calculate_tax_reduction", c, income, 0)
                      EXCEPT !.exc = r.exc]
             ELSE Returned("calculate_tax_reduction", c, income, r.val)]
    /\ UNCHANGED <<calcs, ctor>>
    /\ UNCHANGED notCalcVars

\* calculator.calculate_total_tax(income), line 150:
\*   tax = self.calculate_tax(income)
total_tax_step(w, c, income) ==
    /\ frames[w].pc = "idle"
    /\ frames' = [frames EXCEPT ![w] =
          [IdleFrame EXCEPT !.pc = "total_reduction", !.op = "calculate_total_tax",
                            !.self = c, !.income = income,
                            !.tax = calculate_tax(calcs[c], income)]]
    /\ UNCHANGED <<calcs, ctor>>
    /\ UNCHANGED notCalcVars

\* a reduction step that reads the calculator constructed last, not self
total_reduction_step_shared(w) ==
    /\ frames[w].pc = "total_reduction"
    /\ LET f == frames[w]
           r == calculate_tax_reduction(calcs[Len(calcs)], f.income)
       IN frames' = [frames EXCEPT ![w] =
             IF r.exc # "none"
             THEN [f EXCEPT !.pc = "returned", !.exc = r.exc]
             ELSE [f EXCEPT !.pc = "total_return", !.reduction = r.val]]
    /\ UNCHANGED <<calcs, ctor>>
    /\ UNCHANGED notCalcVars

\* line 151: reduction = self.calculate_tax_reduction(income)
total_reduction_step(w) ==
    /\ frames[w].pc = "total_reduction"
    /\ LET f == frames[w]
           r == calculate_tax_reduction(calcs[f.self], f.income)
       IN frames' = [frames EXCEPT ![w] =
             IF r.exc # "none"
             THEN [f EXCEPT !.pc = "returned", !.exc = r.exc]
             ELSE [f EXCEPT !.pc = "total_return", !.reduction = r.val]]
    /\ UNCHANGED <<calcs, ctor>>
    /\ UNCHANGED notCalcVars

\* line 152: return tax - reduction
total_return_step(w) ==
    /\ frames[w].pc = "total_return"
    /\ frames' = [frames EXCEPT ![w] =
          [frames[w] EXCEPT !.pc = "returned",
                            !.ret = frames[w].tax - frames[w].reduction]]
    /\ UNCHANGED <<calcs, ctor>>
    /\ UNCHANGED notCalcVars

\* the caller is done with the returned value and may call again
next_call(w) ==
    /\ frames[w].pc = "returned"
    /\ frames' = [frames EXCEPT ![w] = IdleFrame]
    /\ UNCHANGED <<calcs, ctor>>
    /\ UNCHANGED notCalcVars

----------------------------------------------------------------------------
(* generate_test_cases.  The accented letters of the source's strings are  *)
(* written without accent.                                                 *)

situations == <<"Personne vivant seule", "Famille monoparentale", "Couple",
                "Retraite vivant seul", "Couple de retraites">>
revenus == <<0, 15000, 30000, 45000, 60000, 75000, 90000>>
ages_travailleur == <<25, 35, 45, 55>>
ages_retraite == <<65, 75, 85>>
ages_enfant == <<2, 5, 10, 15>>
nb_enfants == <<0, 1, 2, 3>>
frais_garde == <<0, 8000, 15000>>
types_garde == <<"Subventionnee", "Non subventionnee">>

Elems(list) == { list[i] : i \in 1 .. Len(list) }

\* all the candidates of every list: what random.choice can return
AllChoices ==
    [situations |-> Elems(situations), revenus |-> Elems(revenus),
     ages_travailleur |-> Elems(ages_travailleur),
     ages_retraite |-> Elems(ages_retraite),
     ages_enfant |-> Elems(ages_enfant), nb_enfants |-> Elems(nb_enfants),
     frais_garde |-> Elems(frais_garde), types_garde |-> Elems(types_garde)]

\* the candidates the batches of run_tests are drawn from
RunChoices ==
    [situations |-> Elems(situations), revenus |-> {0, 15000},
     ages_travailleur |-> {35}, ages_retraite |-> {65},
     ages_enfant |-> {2, 10}, nb_enfants |-> {0, 1},
     frais_garde |-> {0, 8000}, types_garde |-> Elems(types_garde)]

\* 'retraité' in situation, without lower(): 'Retraité vivant seul' is missed
est_retraite_case_sensitive(situation) ==
    situation = "Couple de retraites"

\* 'retraité' in situation.lower(), on the five candidate situations
est_retraite(situation) ==
    situation \in {"Retraite vivant seul", "Couple de retraites"}

\* 'Couple' in situation
est_couple(situation) ==
    situation \in {"Couple", "Couple de retraites"}

\* a test that forgets the person living alone
peut_avoir_enfants_not_retired(situation) ==
    ~est_retraite(situation)

peut_avoir_enfants(situation) ==
    ~est_retraite(situation) /\ situation # "Personne vivant seule"

\* the keys f'age_enfant{i}', f'frais{i}', f'type_garde{i}' of a case
age_enfant_key(i) == "age_enfant" \o ToString(i)
frais_key(i) == "frais" \o ToString(i)
type_garde_key(i) == "type_garde" \o ToString(i)

\* lines 246-253: the case before the children are added
base_cases(ch) ==
    { [situation |-> situation,
       revenu1 |-> revenu1,
       age1 |-> age1,
       revenu2 |-> IF est_couple(situation) THEN revenu2 ELSE 0,
       age2 |-> IF est_couple(situation) THEN age2 ELSE 0,
       nb_enfants |-> 0] :
         situation \in ch.situations,
         revenu1 \in ch.revenus, revenu2 \in ch.revenus,
         age1 \in ch.ages_travailleur \cup ch.ages_retraite,
         age2 \in ch.ages_travailleur \cup ch.ages_retraite }

\* the ages random.choice(ages_retraite if est_retraite else ages_travailleur)
\* can return for a situation
ages_adulte(ch, situation) ==
    IF est_retraite(situation) THEN ch.ages_retraite ELSE ch.ages_travailleur

\* lines 258-265: the attributes of child i
child_attrs(ch, i) ==
    { age_enfant_key(i) :> age_enfant
        @@ frais_key(i) :> (IF age_enfant <= 5 THEN frais ELSE 0)
        @@ type_garde_key(i) :> (IF age_enfant <= 5 THEN type ELSE "Subventionnee") :
          age_enfant \in ch.ages_enfant, frais \in ch.frais_garde,
          type \in ch.types_garde }

\* lines 257-265: the for loop over the children, from child i on
RECURSIVE add_children(_, _, _)
add_children(ch, case, i) ==
    IF i > case.nb_enfants THEN {case}
    ELSE UNION { add_children(ch, case @@ attrs, i + 1) : attrs \in child_attrs(ch, i) }

\* lines 241-267: the cases one iteration of the generator can append
generate_case(ch) ==
    UNION { IF peut_avoir_enfants(case.situation)
            THEN UNION { add_children(ch, [case EXCEPT !.nb_enfants = n], 1) :
                           n \in ch.nb_enfants }
            ELSE {case} :
            case \in { b \in base_cases(ch) :
                         /\ b.age1 \in ages_adulte(ch, b.situation)
                         /\ est_couple(b.situation) =>
                               b.age2 \in ages_adulte(ch, b.situation) } }

\* the lists generate_test_cases(nobs) can return
RECURSIVE generate_test_cases(_, _)
generate_test_cases(ch, nobs) ==
    IF nobs <= 0 THEN { <<>> }
    ELSE { Append(cases, case) :
             cases \in generate_test_cases(ch, nobs - 1), case \in generate_case(ch) }

----------------------------------------------------------------------------
(* generate_test_cases, statement by statement.  random.choice draws from  *)
(* the generator of the random module: seeded by the caller, the draws are *)
(* a function of the seed and of the number of draws made since; left      *)
(* unseeded (seeded by the system when the module is imported), any        *)
(* candidate can be drawn.                                                 *)

\* seeds a caller passes to random.seed
Seeds == {1, 2}

\* the candidate lists by name
Lists ==
    [situations |-> situations, revenus |-> revenus,
     ages_travailleur |-> ages_travailleur, ages_retraite |-> ages_retraite,
     ages_enfant |-> ages_enfant, nb_enfants |-> nb_enfants,
     frais_garde |-> frais_garde, types_garde |-> types_garde]

\* candidates drawn for single unseeded cases: every child age and number of
\* children, the extreme incomes, ages and fees
WideChoices ==
    [situations |-> Elems(situations), revenus |-> {0, 90000},
     ages_travailleur |-> {25, 55}, ages_retraite |-> {65, 85},
     ages_enfant |-> Elems(ages_enfant), nb_enfants |-> Elems(nb_enfants),
     frais_garde |-> {0, 15000}, types_garde |-> Elems(types_garde)]

Choices(profile) ==
    IF profile = "all" THEN AllChoices
    ELSE IF profile = "wide" THEN WideChoices
    ELSE RunChoices

\* the calls generate_test_cases(nobs) that are made: seeded, on the full
\* lists; unseeded, batches on the candidates of run_tests or one wide case
Calls(seeded) ==
    IF seeded
    THEN { [profile |-> "all", nobs |-> n] : n \in 0 .. MaxNobs }
    ELSE { [profile |-> "run", nobs |-> n] : n \in 0 .. MaxNobs }
         \cup { [profile |-> "wide", nobs |-> 1] }

\* the index below n that draw number pos of a seeded generator yields
randbelow(seed, pos, n) ==
    ((seed + pos) * (seed + pos + 1) + seed * pos * pos + pos) % n

\* random.choice(list) as draw number pos: the values it can return
random_choice(name, pos) ==
    IF rng.seed = 0
    THEN Choices(gen.profile)[name]
    ELSE { Lists[name][randbelow(rng.seed, pos, Len(Lists[name])) + 1] }

\* ages_retraite if est_retraite else ages_travailleur
ages_name(situation) ==
    IF est_retraite(situation) THEN "ages_retraite" ELSE "ages_travailleur"

NoCase == [x \in {} |-> 0]

IdleGen ==
    [pc |-> "idle", profile |-> "run", nobs |-> 0, start |-> [seed |-> 0, pos |-> 0],
     k |-> 0, i |-> 0, case |-> NoCase, test_cases |-> <<>>]

NoRun == [start |-> [seed |-> 0, pos |-> 0], nobs |-> 0, out |-> <<>>, done |-> FALSE]

\* random.seed(s), by the caller, before a call of generate_test_cases
random_seed(s) ==
    /\ gen.pc = "idle"
    /\ rng' = [seed |-> s, pos |-> 0]
    /\ UNCHANGED <<gen, first>>
    /\ UNCHANGED notGenVars

\* a call whose list is the one the previous call filled
gen_call_keeps_list(call) ==
    /\ gen.pc = "idle"
    /\ gen' = [IdleGen EXCEPT !.pc = "loop", !.profile = call.profile,
                             !.nobs = call.nobs, !.start = rng,
                             !.test_cases = first.out]
    /\ UNCHANGED <<rng, first>>
    /\ UNCHANGED notGenVars

\* generate_test_cases(nobs) is called; line 237: test_cases = []
gen_call(call) ==
    /\ gen.pc = "idle"
    /\ gen' = [IdleGen EXCEPT !.pc = "loop", !.profile = call.profile,
                             !.nobs = call.nobs, !.start = rng]
    /\ UNCHANGED <<rng, first>>
    /\ UNCHANGED notGenVars

\* lines 240-253: one more pass of `for _ in range(nobs)`: the situation and
\* the adults are drawn
gen_base ==
    /\ gen.pc = "loop"
    /\ gen.k < gen.nobs
    /\ \E situation \in random_choice("situations", rng.pos) :
       \E revenu1 \in random_choice("revenus", rng.pos + 1) :
       \E age1 \in random_choice(ages_name(situation), rng.pos + 2) :
       \E revenu2 \in IF est_couple(situation)
                      THEN random_choice("revenus", rng.pos + 3) ELSE {0} :
       \E age2 \in IF est_couple(situation)
                   THEN random_choice(ages_name(situation), rng.pos + 4) ELSE {0} :
          /\ gen' = [gen EXCEPT
                !.case = [situation |-> situation, revenu1 |-> revenu1,
                          age1 |-> age1, revenu2 |-> revenu2, age2 |-> age2,
                          nb_enfants |-> 0],
                !.pc = IF peut_avoir_enfants(situation) THEN "nb" ELSE "append"]
          /\ rng' = [rng EXCEPT !.pos = @ + (IF est_couple(situation) THEN 5 ELSE 3)]
    /\ UNCHANGED first
    /\ UNCHANGED notGenVars

\* line 256: case['nb_enfants'] = random.choice(nb_enfants)
gen_nb ==
    /\ gen.pc = "nb"
    /\ \E n \in random_choice("nb_enfants", rng.pos) :
          gen' = [gen EXCEPT !.case = [@ EXCEPT !.nb_enfants = n],
                             !.i = 1, !.pc = "children"]
    /\ rng' = [rng EXCEPT !.pos = @ + 1]
    /\ UNCHANGED first
    /\ UNCHANGED notGenVars

\* a child loop that draws the fee and the care type of every child
gen_child_always_drawn ==
    /\ gen.pc = "children"
    /\ gen.i <= gen.case.nb_enfants
    /\ \E age_enfant \in random_choice("ages_enfant", rng.pos) :
       \E frais \in random_choice("frais_garde", rng.pos + 1) :
       \E type \in random_choice("types_garde", rng.pos + 2) :
          /\ gen' = [gen EXCEPT
                !.case = @ @@ (age_enfant_key(gen.i) :> age_enfant
                               @@ frais_key(gen.i) :> frais
                               @@ type_garde_key(gen.i) :> type),
                !.i = @ + 1]
          /\ rng' = [rng EXCEPT !.pos = @ + 3]
    /\ UNCHANGED first
    /\ UNCHANGED notGenVars

\* lines 257-265: one pass of `for i in range(1, case['nb_enfants'] + 1)`
gen_child ==
    /\ gen.pc = "children"
    /\ gen.i <= gen.case.nb_enfants
    /\ \E age_enfant \in random_choice("ages_enfant", rng.pos) :
       \E frais \in IF age_enfant <= 5
                    THEN random_choice("frais_garde", rng.pos + 1) ELSE {0} :
       \E type \in IF age_enfant <= 5
                   THEN random_choice("types_garde", rng.pos + 2)
                   ELSE {"Subventionnee"} :
          /\ gen' = [gen EXCEPT
                !.case = @ @@ (age_enfant_key(gen.i) :> age_enfant
                               @@ frais_key(gen.i) :> frais
                               @@ type_garde_key(gen.i) :> type),
                !.i = @ + 1]
          /\ rng' = [rng EXCEPT !.pos = @ + (IF age_enfant <= 5 THEN 3 ELSE 1)]
    /\ UNCHANGED first
    /\ UNCHANGED notGenVars

\* an append that leaves out a case the list already holds
gen_append_distinct ==
    /\ \/ gen.pc = "append"
       \/ gen.pc = "children" /\ gen.i > gen.case.nb_enfants
    /\ gen' = [gen EXCEPT
          !.test_cases = IF \E j \in 1 .. Len(@) : @[j] = gen.case
                         THEN @ ELSE Append(@, gen.case),
          !.case = NoCase, !.i = 0, !.k = @ + 1, !.pc = "loop"]
    /\ UNCHANGED <<rng, first>>
    /\ UNCHANGED notGenVars

\* line 267: test_cases.append(case), once the children loop is over
gen_append ==
    /\ \/ gen.pc = "append"
       \/ gen.pc = "children" /\ gen.i > gen.case.nb_enfants
    /\ gen' = [gen EXCEPT !.test_cases = Append(@, gen.case),
                         !.case = NoCase, !.i = 0, !.k = @ + 1, !.pc = "loop"]
    /\ UNCHANGED <<rng, first>>
    /\ UNCHANGED notGenVars

\* line 269: return test_cases, once range(nobs) is exhausted
gen_return ==
    /\ gen.pc = "loop"
    /\ gen.k >= gen.nobs
    /\ gen' = [gen EXCEPT !.pc = "done"]
    /\ UNCHANGED <<rng, first>>
    /\ UNCHANGED notGenVars

\* the caller keeps the list of a seeded run and starts over
gen_restart ==
    /\ gen.pc = "done"
    /\ rng.seed # 0
    /\ ~first.done
    /\ first' = [start |-> gen.start, nobs |-> gen.nobs,
                 out |-> gen.test_cases, done |-> TRUE]
    /\ gen' = IdleGen
    /\ UNCHANGED rng
    /\ UNCHANGED notGenVars

----------------------------------------------------------------------------
(* class TaxCalculatorTest: the form of index.html driven through selenium *)

MaxChildren == Len(nb_enfants) - 1

AgeEnfant(i) == "AgeEnfant" \o ToString(i)
Frais(i) == "Frais" \o ToString(i)
type_garde(i) == "type_garde" \o ToString(i)

SelectIds == {"Situation", "NbEnfants"} \cup { type_garde(i) : i \in 1 .. MaxChildren }
TextIds ==
    {"Revenu1", "AgeAdulte1", "Revenu2", "AgeAdulte2"}
    \cup { AgeEnfant(i) : i \in 1 .. MaxChildren }
    \cup { Frais(i) : i \in 1 .. MaxChildren }

\* f"{n} enfant{'s' if n > 1 else ''}" if n > 0 else 'Aucun enfant'
nb_enfants_text(n) ==
    IF n > 0 THEN ToString(n) \o " enfant" \o (IF n > 1 THEN "s" ELSE "")
    ELSE "Aucun enfant"

\* the option texts of the select elements of the form
Options(element_id) ==
    IF element_id = "Situation" THEN Elems(situations)
    ELSE IF element_id = "NbEnfants"
         THEN { nb_enfants_text(n) : n \in Elems(nb_enfants) }
         ELSE Elems(types_garde)

\* the inputs of the form when the page has been loaded
FormOnLoad ==
    [id \in SelectIds \cup TextIds |->
        IF id = "Situation" THEN situations[1]
        ELSE IF id = "NbEnfants" THEN nb_enfants_text(0)
        ELSE IF id \in SelectIds THEN types_garde[1]
        ELSE "0"]

\* tester.select_by_text(element_id, text): the matching option is clicked,
\* if there is one
select_by_text(fm, element_id, text) ==
    IF text \in Options(element_id)
    THEN [fm EXCEPT ![element_id] = text]
    ELSE fm

\* tester.fill_field(selector, value): clear(), then send_keys(str(value))
fill_field(fm, selector, value) ==
    [fm EXCEPT ![selector] = ToString(value)]

result_fields == <<"RD_new", "QC_total_new", "CA_total_new", "Cotisation_new">>

\* the exception of a selenium call that fails
WebDriverException == "WebDriverException"

\* the sub-totals are dropped, the grand total alone is read
extract_results_total_only(fm) ==
    [field \in {result_fields[1]} |-> [field |-> field, inputs |-> fm]]

\* tester.extract_results(): the value of each result field is what the form
\* computes from the inputs it holds
extract_results(fm) ==
    [field \in Elems(result_fields) |-> [field |-> field, inputs |-> fm]]

----------------------------------------------------------------------------
(* Calls of the TaxCalculatorTest methods, one at a time, by any caller *)

NoCall == [op |-> "none", element_id |-> "", text |-> "", exc |-> "none",
           recalc |-> ""]

\* a text that no option of the form has
OtherText == "Autre"

\* the select elements and the text inputs a caller addresses
CalledSelects == {"Situation", "NbEnfants", type_garde(1)}
CalledInputs == {"Revenu1", Frais(1)}
CalledValues == {0, 15000}

\* tester = TaxCalculatorTest(url)
TaxCalculatorTest ==
    /\ driver = "none"
    /\ driver' = "open"
    /\ form' = FormOnLoad
    /\ last_call' = [NoCall EXCEPT !.op = "__init__"]
    /\ UNCHANGED notTesterVars

\* tester.select_by_text(element_id, text): the option whose text matches is
\* clicked, when there is one; recalc_onclick is executed in every case and
\* the method returns
call_select_by_text(element_id, text) ==
    /\ driver = "open"
    /\ form' = select_by_text(form, element_id, text)
    /\ last_call' = [op |-> "select_by_text", element_id |-> element_id,
                text |-> text, exc |-> "none", recalc |-> element_id]
    /\ UNCHANGED driver
    /\ UNCHANGED notTesterVars

\* tester.fill_field(selector, value)
call_fill_field(selector, value) ==
    /\ driver = "open"
    /\ form' = fill_field(form, selector, value)
    /\ last_call' = [op |-> "fill_field", element_id |-> selector,
                text |-> ToString(value), exc |-> "none", recalc |-> selector]
    /\ UNCHANGED driver
    /\ UNCHANGED notTesterVars

\* tester.close()
call_close ==
    /\ driver = "open"
    /\ driver' = "quit"
    /\ last_call' = [NoCall EXCEPT !.op = "close"]
    /\ UNCHANGED form
    /\ UNCHANGED notTesterVars

----------------------------------------------------------------------------
(* run_tests *)

\* case.get(key, 0)
get(case, key, default) ==
    IF key \in DOMAIN case THEN case[key] ELSE default

\* lines 297-301: the for loop over the children, from child i on
RECURSIVE fill_children(_, _, _)
fill_children(fm, case, i) ==
    IF i > case.nb_enfants THEN fm
    ELSE LET f1 == fill_field(fm, AgeEnfant(i), case[age_enfant_key(i)])
             f2 == IF get(case, frais_key(i), 0) > 0
                   THEN select_by_text(fill_field(f1, Frais(i), case[frais_key(i)]),
                                       type_garde(i), case[type_garde_key(i)])
                   ELSE f1
         IN fill_children(f2, case, i + 1)

\* lines 286-301: the inputs of the form after the body of the loop has
\* entered the case
fill_case(fm, case) ==
    LET f1 == select_by_text(fm, "Situation", case.situation)
        f2 == fill_field(f1, "Revenu1", case.revenu1)
        f3 == fill_field(f2, "AgeAdulte1", case.age1)
        f4 == IF case.revenu2 > 0
              THEN fill_field(fill_field(f3, "Revenu2", case.revenu2),
                              "AgeAdulte2", case.age2)
              ELSE f3
        f5 == select_by_text(f4, "NbEnfants", nb_enfants_text(case.nb_enfants))
    IN fill_children(f5, case, 1)

\* line 278: test_cases = generate_test_cases(5); line 279: results = []
run_generate ==
    /\ run.pc = "start"
    /\ test_cases' \in generate_test_cases(RunChoices, NobsRun)
    /\ generated' = test_cases'
    /\ results' = <<>>
    /\ run' = [run EXCEPT !.pc = "open"]
    /\ UNCHANGED <<driver, form>>
    /\ UNCHANGED notRunVars

\* line 281: tester = TaxCalculatorTest(url)
run_open ==
    /\ run.pc = "open"
    /\ driver' = "open"
    /\ form' = FormOnLoad
    /\ run' = [run EXCEPT !.pc = "loop", !.k = 1]
    /\ UNCHANGED <<test_cases, generated, results>>
    /\ UNCHANGED notRunVars

\* line 281, lines 189-191: webdriver.Firefox() opens the session, then
\* driver.get(url) raises; tester is not bound and the try statement is not
\* entered
run_open_raises ==
    /\ run.pc = "open"
    /\ driver' = "open"
    /\ run' = [run EXCEPT !.pc = "raised", !.exc = WebDriverException]
    /\ UNCHANGED <<test_cases, generated, results, form>>
    /\ UNCHANGED notRunVars

\* lines 284-303: the case is entered into the form
run_fill ==
    /\ run.pc = "loop"
    /\ run.k <= Len(test_cases)
    /\ form' = fill_case(form, test_cases[run.k])
    /\ run' = [run EXCEPT !.pc = "extract", !.filled = Append(@, run.k)]
    /\ UNCHANGED <<test_cases, generated, results, driver>>
    /\ UNCHANGED notRunVars

\* the exception of a form interaction is caught and the loop goes on
run_fill_raises_swallowed ==
    /\ run.pc = "loop"
    /\ run.k <= Len(test_cases)
    /\ form' \in {form, fill_case(form, test_cases[run.k])}
    /\ run' = [run EXCEPT !.exc = WebDriverException, !.k = @ + 1,
                         !.filled = Append(@, run.k)]
    /\ UNCHANGED <<test_cases, generated, results, driver>>
    /\ UNCHANGED notRunVars

\* lines 286-301: find_element, click, clear, send_keys or execute_script
\* raises, at the first interaction with the form or at a later one; there
\* is no except clause, the try statement is left through its finally
run_fill_raises ==
    /\ run.pc = "loop"
    /\ run.k <= Len(test_cases)
    /\ form' \in {form, fill_case(form, test_cases[run.k])}
    /\ run' = [run EXCEPT !.exc = WebDriverException, !.pc = "finally",
                         !.filled = Append(@, run.k)]
    /\ UNCHANGED <<test_cases, generated, results, driver>>
    /\ UNCHANGED notRunVars

\* lines 306-308: the results are read and the case is recorded.  `case` is
\* the dict held by test_cases, so case.update changes it in the list too.
run_extract ==
    /\ run.pc = "extract"
    /\ LET test_results == extract_results(form)
           case == test_results @@ test_cases[run.k]
       IN /\ test_cases' = [test_cases EXCEPT ![run.k] = case]
          /\ results' = Append(results, case)
    /\ run' = [run EXCEPT !.pc = "loop", !.k = @ + 1]
    /\ UNCHANGED <<generated, driver, form>>
    /\ UNCHANGED notRunVars

\* line 306: find_element or get_attribute raises in extract_results
run_extract_raises ==
    /\ run.pc = "extract"
    /\ run' = [run EXCEPT !.exc = WebDriverException, !.pc = "finally"]
    /\ UNCHANGED <<test_cases, generated, results, driver, form>>
    /\ UNCHANGED notRunVars

\* lines 310-311: finally: tester.close(), when the loop is over or an
\* exception has left it; a pending exception is raised again afterwards
run_finally ==
    /\ \/ run.pc = "loop" /\ run.k > Len(test_cases)
       \/ run.pc = "finally"
    /\ driver' = "quit"
    /\ run' = [run EXCEPT !.pc = IF run.exc = "none" THEN "return" ELSE "raised",
                         !.quits = @ + 1]
    /\ UNCHANGED <<test_cases, generated, results, form>>
    /\ UNCHANGED notRunVars

\* line 316: return results
run_return ==
    /\ run.pc = "return"
    /\ run' = [run EXCEPT !.pc = "done", !.returned = TRUE]
    /\ UNCHANGED <<test_cases, generated, results, driver, form>>
    /\ UNCHANGED notRunVars

----------------------------------------------------------------------------
(* Dependency resolver / orchestrator: evaluate(household, year) *)

\* the program names of the example of the design: a credit reduced by net
\* income, itself a function of a tax
Programs == {"QC_income_tax", "net_income", "solidarity_credit"}

\* the static declarations: for each program, the programs whose results its
\* calculation requires
Declarations == [Programs -> SUBSET Programs]

Households == {1, 2}

DependencyCycleError == "DependencyCycleError"

NoResults == [p \in {} |-> 0]

IdleOrch ==
    [pc |-> "startup", deps |-> [p \in Programs |-> {}], order |-> <<>>,
     exc |-> "none", household |-> 0, pos |-> 0, running |-> {},
     prior_results |-> NoResults, results |-> NoResults, out |-> NoResults]

\* compute(household, context, prior_results) -> amount: the amount of a
\* program is a function of the household and of the prior results it reads
compute(program, household, prior_results) ==
    [program |-> program, household |-> household,
     read |-> [q \in orch.deps[program] \cap DOMAIN prior_results |->
                  prior_results[q]]]

\* startup: the dependency graph is built from the static declarations
declare_dependencies(deps) ==
    /\ orch.pc = "startup"
    /\ orch' = [orch EXCEPT !.deps = deps, !.pc = "sort"]
    /\ UNCHANGED cmp
    /\ UNCHANGED notEngineVars

\* a program is placed in the order whatever its dependencies
topological_sort_step_unordered ==
    /\ orch.pc = "sort"
    /\ \E p \in Programs \ Elems(orch.order) :
          orch' = [orch EXCEPT !.order = Append(@, p)]
    /\ UNCHANGED cmp
    /\ UNCHANGED notEngineVars

\* topological sort: a program all of whose dependencies are placed is
\* placed next
topological_sort_step ==
    /\ orch.pc = "sort"
    /\ \E p \in Programs \ Elems(orch.order) :
          /\ orch.deps[p] \subseteq Elems(orch.order)
          /\ orch' = [orch EXCEPT !.order = Append(@, p)]
    /\ UNCHANGED cmp
    /\ UNCHANGED notEngineVars

\* every program is placed: the order is computed once, startup is over
topological_sort_done ==
    /\ orch.pc = "sort"
    /\ Elems(orch.order) = Programs
    /\ orch' = [orch EXCEPT !.pc = "ready"]
    /\ UNCHANGED cmp
    /\ UNCHANGED notEngineVars

\* no program can be placed: the graph has a cycle, startup fails
dependency_cycle ==
    /\ orch.pc = "sort"
    /\ Elems(orch.order) # Programs
    /\ \A p \in Programs \ Elems(orch.order) :
          ~(orch.deps[p] \subseteq Elems(orch.order))
    /\ orch' = [orch EXCEPT !.pc = "failed", !.exc = DependencyCycleError]
    /\ UNCHANGED cmp
    /\ UNCHANGED notEngineVars

\* evaluate(household, year): the map of program results starts empty
evaluate(household) ==
    /\ orch.pc = "ready"
    /\ orch' = [orch EXCEPT !.pc = "eval", !.household = household, !.pos = 1,
                           !.results = NoResults, !.out = NoResults]
    /\ UNCHANGED cmp
    /\ UNCHANGED notEngineVars

\* the next calculator of the order is called with the results accumulated
\* so far
compute_start ==
    /\ orch.pc = "eval"
    /\ orch.running = {}
    /\ orch.pos <= Len(orch.order)
    /\ orch' = [orch EXCEPT !.running = {orch.order[orch.pos]},
                           !.prior_results = orch.results]
    /\ UNCHANGED cmp
    /\ UNCHANGED notEngineVars

\* the calculator returns: its amount is added to the map
compute_finish ==
    /\ orch.pc = "eval"
    /\ \E p \in orch.running :
          orch' = [orch EXCEPT
                      !.results = (p :> compute(p, orch.household, orch.prior_results)) @@ @,
                      !.running = {}, !.prior_results = NoResults,
                      !.pos = @ + 1]
    /\ UNCHANGED cmp
    /\ UNCHANGED notEngineVars

\* evaluate returns the result record; the per-household map is dropped
evaluate_return ==
    /\ orch.pc = "eval"
    /\ orch.running = {}
    /\ orch.pos > Len(orch.order)
    /\ orch' = [orch EXCEPT !.pc = "ready", !.out = orch.results,
                           !.results = NoResults, !.pos = 0]
    /\ UNCHANGED cmp
    /\ UNCHANGED notEngineVars

----------------------------------------------------------------------------
(* Orchestrator: the Disposable Income Result of one evaluation.  Amounts   *)
(* are in 1/10000 dollar.                                                   *)

\* programs of the three regimes, each a tax, a contribution or a transfer
ProgramTable ==
    << [name |-> "QC_income_tax", total |-> "QC", kind |-> "tax"],
       [name |-> "QC_family_allowance", total |-> "QC", kind |-> "transfer"],
       [name |-> "CA_income_tax", total |-> "CA", kind |-> "tax"],
       [name |-> "CA_child_benefit", total |-> "CA", kind |-> "transfer"],
       [name |-> "EI_premium", total |-> "Cotisation", kind |-> "contribution"] >>

ProgramNames == { ProgramTable[i].name : i \in 1 .. Len(ProgramTable) }

\* gross incomes and program amounts of the households evaluated
GrossIncomes == {0, 300000000}
ProgramAmounts == {0, 10000000, 25000000}

NoSubTotals ==
    [QC_taxes |-> 0, QC_transfers |-> 0, CA_taxes |-> 0, CA_transfers |-> 0,
     contributions |-> 0]

IdleAssembly ==
    [pc |-> "idle", gross_income |-> 0, programs |-> NoResults, i |-> 0,
     sub_totals |-> NoSubTotals, grand_total |-> 0]

\* the sub-total a program result is added to
sub_total_of(program) ==
    IF program.kind = "contribution" THEN "contributions"
    ELSE IF program.kind = "tax"
         THEN (IF program.total = "QC" THEN "QC_taxes" ELSE "CA_taxes")
         ELSE (IF program.total = "QC" THEN "QC_transfers" ELSE "CA_transfers")

\* the calculators have run: the record starts from the gross income
assemble_start ==
    /\ assembly.pc = "idle"
    /\ \E gross_income \in GrossIncomes :
          \E programs \in [ProgramNames -> ProgramAmounts] :
             assembly' = [IdleAssembly EXCEPT !.pc = "sum", !.i = 1,
                                              !.gross_income = gross_income,
                                              !.programs = programs,
                                              !.grand_total = gross_income]
    /\ UNCHANGED notRecordVars

\* a contribution enters its sub-total and is left out of the grand total
assemble_program_contribution_kept ==
    /\ assembly.pc = "sum"
    /\ assembly.i <= Len(ProgramTable)
    /\ LET program == ProgramTable[assembly.i]
           amount == assembly.programs[program.name]
       IN assembly' = [assembly EXCEPT
              !.sub_totals[sub_total_of(program)] = @ + amount,
              !.grand_total = IF program.kind = "transfer" THEN @ + amount
                              ELSE IF program.kind = "tax" THEN @ - amount
                              ELSE @,
              !.i = @ + 1]
    /\ UNCHANGED notRecordVars

\* the next program result enters its sub-total; the grand total is the gross
\* income minus taxes minus contributions plus transfers and credits
assemble_program ==
    /\ assembly.pc = "sum"
    /\ assembly.i <= Len(ProgramTable)
    /\ LET program == ProgramTable[assembly.i]
           amount == assembly.programs[program.name]
       IN assembly' = [assembly EXCEPT
              !.sub_totals[sub_total_of(program)] = @ + amount,
              !.grand_total = IF program.kind = "transfer" THEN @ + amount
                              ELSE @ - amount,
              !.i = @ + 1]
    /\ UNCHANGED notRecordVars

\* the record is returned
assemble_return ==
    /\ assembly.pc = "sum"
    /\ assembly.i > Len(ProgramTable)
    /\ assembly' = [assembly EXCEPT !.pc = "done"]
    /\ UNCHANGED notRecordVars

----------------------------------------------------------------------------
(* Differential validator: compare(household, year) *)

\* the fixed tolerance, 0.01 currency unit, in 1/10000 dollar
Tolerance == 100

abs(x) == IF x < 0 THEN -x ELSE x

\* the result records of the engine for a household: amounts in 1/10000 dollar
EngineResults(household) ==
    { [f \in Elems(result_fields) |-> a] : a \in {0, household * 10000} }

\* the oracle's record differs from the engine's by these amounts, field by
\* field: nothing, just below the tolerance, the tolerance, or more
Deltas == {0 - 2 * Tolerance, 0 - Tolerance, 1 - Tolerance, 0,
           Tolerance - 1, Tolerance, 2 * Tolerance}

OracleResults(engine) ==
    { [f \in Elems(result_fields) |-> engine[f] - d[f]] :
          d \in [Elems(result_fields) -> Deltas] }

IdleCmp ==
    [pc |-> "idle", household |-> 0, engine |-> NoResults, oracle |-> NoResults,
     i |-> 0, mismatches |-> <<>>, exc |-> "none", report |-> <<>>]

\* compare(household, year): the orchestrator and the reference oracle are
\* invoked on the same household and each returns its record
compare ==
    /\ cmp.pc = "idle"
    /\ \E household \in Households :
          \E engine \in EngineResults(household) :
             \E oracle \in OracleResults(engine) :
                cmp' = [pc |-> "fields", household |-> household,
                        engine |-> engine, oracle |-> oracle, i |-> 1,
                        mismatches |-> <<>>, exc |-> "none", report |-> <<>>]
    /\ UNCHANGED orch
    /\ UNCHANGED notEngineVars

\* two amounts are taken as equal up to and including the tolerance
compare_field_inclusive ==
    /\ cmp.pc = "fields"
    /\ cmp.i <= Len(result_fields)
    /\ LET field == result_fields[cmp.i]
           difference == cmp.engine[field] - cmp.oracle[field]
       IN cmp' = [cmp EXCEPT
                     !.mismatches =
                         IF abs(difference) <= Tolerance THEN @
                         ELSE Append(@, [field |-> field,
                                         engine |-> cmp.engine[field],
                                         oracle |-> cmp.oracle[field],
                                         difference |-> difference]),
                     !.i = @ + 1]
    /\ UNCHANGED orch
    /\ UNCHANGED notEngineVars

\* the next named field of both records is compared: the amounts are equal
\* when their absolute difference is below the tolerance, otherwise the field
\* is listed with both values and the signed difference
compare_field ==
    /\ cmp.pc = "fields"
    /\ cmp.i <= Len(result_fields)
    /\ LET field == result_fields[cmp.i]
           difference == cmp.engine[field] - cmp.oracle[field]
       IN cmp' = [cmp EXCEPT
                     !.mismatches =
                         IF abs(difference) < Tolerance THEN @
                         ELSE Append(@, [field |-> field,
                                         engine |-> cmp.engine[field],
                                         oracle |-> cmp.oracle[field],
                                         difference |-> difference]),
                     !.i = @ + 1]
    /\ UNCHANGED orch
    /\ UNCHANGED notEngineVars

\* the report is returned, with or without mismatches
compare_return ==
    /\ cmp.pc = "fields"
    /\ cmp.i > Len(result_fields)
    /\ cmp' = [cmp EXCEPT !.pc = "done", !.report = cmp.mismatches]
    /\ UNCHANGED orch
    /\ UNCHANGED notEngineVars

----------------------------------------------------------------------------
(* commun.js: the tooltips.  dom[kind][id] is the element "#kind-id": the   *)
(* text bubble (texte), the triangle, the sheet (feuille) and the link      *)
(* (lien) of tooltip id, with its set of classes and its aria attributes.   *)

Tooltips == {"t1", "t2"}

Kinds == {"texte", "triangle", "feuille", "lien"}

\* the widths of the viewport: narrower than 600, and 600 or wider
Widths == {599, 600}

Keys == {"Escape", "Tab", "Enter"}

\* the elements of a jQuery class selector: .tooltiptextBulle are the text
\* bubbles, .triangle the triangles and .pointaide the links
ClassSelector(selector) ==
    IF selector = ".tooltiptextBulle" THEN "texte"
    ELSE IF selector = ".triangle" THEN "triangle"
    ELSE "lien"

\* the elements as the page declares them
Element(kind) ==
    [class |-> IF kind = "lien" THEN {} ELSE {"cacher"},
     aria_hidden |-> IF kind \in {"texte", "feuille"} THEN "true" ELSE "",
     aria_expanded |-> IF kind = "lien" THEN "false" ELSE ""]

\* the style sheet: an element of class cacher is not displayed
css_display(el) == IF "cacher" \in el.class THEN "none" ELSE "block"

\* $("#kind-id").removeClass(c), .addClass(c), .attr(name, value)
removeClass(d, kind, id, c) == [d EXCEPT ![kind][id].class = @ \ {c}]
addClass(d, kind, id, c) == [d EXCEPT ![kind][id].class = @ \cup {c}]
attr_hidden(d, kind, id, value) == [d EXCEPT ![kind][id].aria_hidden = value]
attr_expanded(d, kind, id, value) == [d EXCEPT ![kind][id].aria_expanded = value]

\* removeClass(from) then addClass(to) on one element
swapClass(d, kind, id, from, to) == addClass(removeClass(d, kind, id, from), kind, id, to)

\* $(selector).removeClass(from), .addClass(to) on every element of a class
swapClassAll(d, selector, from, to) ==
    [d EXCEPT ![ClassSelector(selector)] =
        [id \in Tooltips |-> [@[id] EXCEPT !.class = (@ \ {from}) \cup {to}]]]

attr_hidden_all(d, selector, value) ==
    [d EXCEPT ![ClassSelector(selector)] =
        [id \in Tooltips |-> [@[id] EXCEPT !.aria_hidden = value]]]

attr_expanded_all(d, selector, value) ==
    [d EXCEPT ![ClassSelector(selector)] =
        [id \in Tooltips |-> [@[id] EXCEPT !.aria_expanded = value]]]

\* lines 134-148
afficheFeuille(d, monObjet) ==
    LET d1 == attr_expanded(d, "lien", monObjet, "true")
        d2 == swapClass(d1, "feuille", monObjet, "cacher", "visible")
    IN attr_hidden(d2, "feuille", monObjet, "false")

\* lines 150-163
cacheFeuille(d, monObjet) ==
    LET d1 == swapClass(d, "feuille", monObjet, "visible", "cacher")
        d2 == attr_hidden(d1, "feuille", monObjet, "true")
    IN attr_expanded(d2, "lien", monObjet, "false")

\* lines 60-77
cacheTooltip(d, monObjet) ==
    LET d1 == swapClass(d, "triangle", monObjet, "visible", "cacher")
        d2 == swapClass(d1, "texte", monObjet, "visible", "cacher")
        d3 == attr_hidden(d2, "texte", monObjet, "true")
    IN attr_expanded(d3, "lien", monObjet, "false")

\* lines 2-58
afficheTooltip(d, width, monObjet) ==
    IF width >= 600
    THEN IF css_display(d["texte"][monObjet]) = "none"
         THEN LET d1 == attr_expanded(d, "lien", monObjet, "true")
                  d2 == swapClass(d1, "texte", monObjet, "cacher", "visible")
                  d3 == swapClass(d2, "triangle", monObjet, "cacher", "visible")
              IN attr_hidden(d3, "texte", monObjet, "false")
         ELSE LET d1 == swapClass(d, "triangle", monObjet, "visible", "cacher")
                  d2 == swapClass(d1, "texte", monObjet, "visible", "cacher")
                  d3 == attr_hidden(d2, "texte", monObjet, "true")
                  d4 == attr_expanded(d3, "lien", monObjet, "false")
              IN cacheFeuille(d4, monObjet)
    ELSE IF css_display(d["feuille"][monObjet]) = "none"
         THEN afficheFeuille(d, monObjet)
         ELSE cacheTooltip(cacheFeuille(d, monObjet), monObjet)

\* lines 80-131
afficheTooltipMobile(d, width, monObjet) ==
    IF width < 600
    THEN LET d1 == swapClass(d, "texte", monObjet, "cacher", "visible")
         IN attr_hidden(d1, "texte", monObjet, "false")
    ELSE IF css_display(d["texte"][monObjet]) = "none"
         THEN LET d1 == attr_expanded(d, "lien", monObjet, "true")
                  d2 == swapClass(d1, "texte", monObjet, "cacher", "visible")
              IN attr_hidden(d2, "texte", monObjet, "false")
         ELSE LET d1 == swapClass(d, "texte", monObjet, "visible", "cacher")
                  d2 == attr_hidden(d1, "texte", monObjet, "true")
              IN attr_expanded(d2, "lien", monObjet, "false")

\* lines 249-258, 296-304: every triangle and text bubble is hidden, every
\* link is marked as not expanded
cacheTout(d) ==
    LET d1 == swapClassAll(d, ".triangle", "visible", "cacher")
        d2 == swapClassAll(d1, ".tooltiptextBulle", "visible", "cacher")
        d3 == attr_hidden_all(d2, ".tooltiptextBulle", "true")
    IN attr_expanded_all(d3, ".pointaide", "false")

\* lines 246-262: the keydown listener of the document
keydown(d, key) ==
    IF key = "Escape" \/ key = "Tab" THEN cacheTout(d) ELSE d

\* lines 265-268: $(document).ready hides the text bubbles
ready(d) == swapClassAll(d, ".tooltiptextBulle", "visible", "cacher")

\* a hover-in that shows the tooltip of the button and leaves the others
hover_in_keeps_others(d, width, monId) ==
    IF width >= 600
    THEN LET d1 == attr_expanded(d, "lien", monId, "true")
             d2 == swapClass(d1, "texte", monId, "cacher", "visible")
             d3 == swapClass(d2, "triangle", monId, "cacher", "visible")
         IN attr_hidden(d3, "texte", monId, "false")
    ELSE d

\* lines 287-318: the first handler of $(".tooltipBulle").hover
hover_in(d, width, monId) ==
    IF width >= 600
    THEN LET d1 == attr_expanded(cacheTout(d), "lien", monId, "true")
             d2 == swapClass(d1, "texte", monId, "cacher", "visible")
             d3 == swapClass(d2, "triangle", monId, "cacher", "visible")
         IN attr_hidden(d3, "texte", monId, "false")
    ELSE d

\* lines 320-338: the second handler of $(".tooltipBulle").hover
hover_out(d, width, monId) ==
    IF width >= 600
    THEN LET d1 == swapClass(d, "triangle", monId, "visible", "cacher")
             d2 == swapClass(d1, "texte", monId, "visible", "cacher")
             d3 == attr_hidden(d2, "texte", monId, "true")
         IN attr_expanded(d3, "lien", monId, "false")
    ELSE d

NoEvent == [name |-> "ready", id |-> "", width |-> 0]

\* the page calls afficheTooltip(monObjet)
call_afficheTooltip(monObjet) ==
    /\ dom' = afficheTooltip(dom, clientWidth, monObjet)
    /\ event' = [name |-> "afficheTooltip", id |-> monObjet, width |-> clientWidth]
    /\ UNCHANGED <<clientWidth, boutons>>
    /\ UNCHANGED notPageVars

\* the page calls afficheTooltipMobile(monObjet)
call_afficheTooltipMobile(monObjet) ==
    /\ dom' = afficheTooltipMobile(dom, clientWidth, monObjet)
    /\ event' = [name |-> "afficheTooltipMobile", id |-> monObjet, width |-> clientWidth]
    /\ UNCHANGED <<clientWidth, boutons>>
    /\ UNCHANGED notPageVars

\* the page calls cacheTooltip(monObjet)
call_cacheTooltip(monObjet) ==
    /\ dom' = cacheTooltip(dom, monObjet)
    /\ event' = [name |-> "cacheTooltip", id |-> monObjet, width |-> clientWidth]
    /\ UNCHANGED <<clientWidth, boutons>>
    /\ UNCHANGED notPageVars

\* the page calls afficheFeuille(monObjet)
call_afficheFeuille(monObjet) ==
    /\ dom' = afficheFeuille(dom, monObjet)
    /\ event' = [name |-> "afficheFeuille", id |-> monObjet, width |-> clientWidth]
    /\ UNCHANGED <<clientWidth, boutons>>
    /\ UNCHANGED notPageVars

\* the page calls cacheFeuille(monObjet)
call_cacheFeuille(monObjet) ==
    /\ dom' = cacheFeuille(dom, monObjet)
    /\ event' = [name |-> "cacheFeuille", id |-> monObjet, width |-> clientWidth]
    /\ UNCHANGED <<clientWidth, boutons>>
    /\ UNCHANGED notPageVars

\* the pointer enters the tooltip
call_hover_in(monObjet) ==
    /\ dom' = hover_in(dom, clientWidth, monObjet)
    /\ event' = [name |-> "hover_in", id |-> monObjet, width |-> clientWidth]
    /\ UNCHANGED <<clientWidth, boutons>>
    /\ UNCHANGED notPageVars

\* the pointer leaves the tooltip
call_hover_out(monObjet) ==
    /\ dom' = hover_out(dom, clientWidth, monObjet)
    /\ event' = [name |-> "hover_out", id |-> monObjet, width |-> clientWidth]
    /\ UNCHANGED <<clientWidth, boutons>>
    /\ UNCHANGED notPageVars

\* a key is pressed anywhere in the document
keydown_event(key) ==
    /\ dom' = keydown(dom, key)
    /\ event' = [name |-> "keydown", id |-> key, width |-> clientWidth]
    /\ UNCHANGED <<clientWidth, boutons>>
    /\ UNCHANGED notPageVars

\* the window is resized; commun.js has no resize handler
resize(width) ==
    /\ width # clientWidth
    /\ clientWidth' = width
    /\ event' = [name |-> "resize", id |-> "", width |-> width]
    /\ UNCHANGED <<dom, boutons>>
    /\ UNCHANGED notPageVars

----------------------------------------------------------------------------
(* commun.js: the buttons that open and close a block.  boutons[o] holds    *)
(* the button "#bouton-o", the display of the element "#o", the classes of  *)
(* the elements ".o" and ".o-info", and the button before the last calls.   *)

\* the objects whose button calls ouvrirBloc, and those whose button calls
\* ouvrirPlus
BlocObjects == {"bloc1", "bloc2"}
PlusObjects == {"plus1"}

\* the values of a button: "+", the minus sign U+2212 written by ouvrirBloc
\* and the en dash U+2013 written by ouvrirPlus
Plus == "+"
MinusSign == "U+2212"
EnDash == "U+2013"

\* the button and the elements it controls as the page declares them: closed
Bouton ==
    [val |-> Plus, aria_expanded |-> "false", display |-> "none",
     class |-> {"cacher"}, info |-> {"cacher"},
     calls |-> 0, before |-> <<>>, before2 |-> <<>>]

\* jQuery slideToggle, once its animation is over
slideToggle(display) == IF display = "none" THEN "block" ELSE "none"

\* an ouvrirPlus that does not put the "+" back when it closes
ouvrirPlus_keeps_value(b) ==
    IF b.val = Plus
    THEN [b EXCEPT !.val = EnDash, !.aria_expanded = "true",
                   !.class = (@ \cup {"visible"}) \ {"cacher"}]
    ELSE [b EXCEPT !.aria_expanded = "false",
                   !.class = (@ \ {"visible"}) \cup {"cacher"},
                   !.info = (@ \ {"visible"}) \cup {"cacher"}]

\* lines 190-211
ouvrirPlus(b) ==
    IF b.val = Plus
    THEN [b EXCEPT !.val = EnDash, !.aria_expanded = "true",
                   !.class = (@ \cup {"visible"}) \ {"cacher"}]
    ELSE [b EXCEPT !.val = Plus, !.aria_expanded = "false",
                   !.class = (@ \ {"visible"}) \cup {"cacher"},
                   !.info = (@ \ {"visible"}) \cup {"cacher"}]

\* lines 168-188
ouvrirBloc(b) ==
    IF b.val = Plus
    THEN [b EXCEPT !.val = MinusSign, !.aria_expanded = "true",
                   !.display = slideToggle(@)]
    ELSE [b EXCEPT !.val = Plus, !.aria_expanded = "false",
                   !.display = slideToggle(@)]

\* the button of the object is clicked: its function runs; the value and the
\* aria-expanded it had before the last two calls are kept
click(b, after) ==
    [after EXCEPT !.calls = IF b.calls < 2 THEN b.calls + 1 ELSE 2,
                  !.before = <<b.val, b.aria_expanded>>,
                  !.before2 = b.before]

call_ouvrirBloc(monObjet) ==
    /\ boutons' = [boutons EXCEPT ![monObjet] = click(@, ouvrirBloc(@))]
    /\ event' = [name |-> "ouvrirBloc", id |-> monObjet, width |-> clientWidth]
    /\ UNCHANGED <<dom, clientWidth>>
    /\ UNCHANGED notPageVars

call_ouvrirPlus(monObjet) ==
    /\ boutons' = [boutons EXCEPT ![monObjet] = click(@, ouvrirPlus(@))]
    /\ event' = [name |-> "ouvrirPlus", id |-> monObjet, width |-> clientWidth]
    /\ UNCHANGED <<dom, clientWidth>>
    /\ UNCHANGED notPageVars

----------------------------------------------------------------------------
(* Specifications *)

CalcInit ==
    /\ calcs = <<>>
    /\ ctor = [year |-> 0, exc |-> "none", obj |-> 0]
    /\ frames = [w \in Workers |-> IdleFrame]

RunInit ==
    /\ test_cases = <<>>
    /\ generated = <<>>
    /\ results = <<>>
    /\ driver = "none"
    /\ form = FormOnLoad
    /\ run = [pc |-> "start", k |-> 0, exc |-> "none", returned |-> FALSE,
              filled |-> <<>>, quits |-> 0]

GenInit ==
    /\ gen = IdleGen
    /\ rng = [seed |-> 0, pos |-> 0]
    /\ first = NoRun

EngineInit ==
    /\ orch = IdleOrch
    /\ cmp = IdleCmp

TesterInit == last_call = NoCall

RecordInit == assembly = IdleAssembly

\* the page once $(document).ready has run, in a wide window
PageInit ==
    /\ dom = ready([kind \in Kinds |-> [id \in Tooltips |-> Element(kind)]])
    /\ clientWidth = 600
    /\ event = NoEvent
    /\ boutons = [o \in BlocObjects \cup PlusObjects |-> Bouton]

\* the calculator: objects are constructed and their methods called
Init ==
    /\ CalcInit /\ RunInit /\ GenInit /\ EngineInit /\ TesterInit /\ PageInit
    /\ RecordInit

Next ==
    \/ \E year \in YearInputs : QuebecIncomeTaxCalculator(year)
    \/ \E w \in Workers, c \in 1 .. Len(calcs) : call_get_tax_brackets(w, c)
    \/ \E w \in Workers, c \in 1 .. Len(calcs), income \in Incomes :
          call_calculate_tax(w, c, income)
    \/ \E w \in Workers, c \in 1 .. Len(calcs), income \in Incomes :
          call_calculate_tax_reduction(w, c, income)
    \/ \E w \in Workers, c \in 1 .. Len(calcs), income \in Incomes :
          total_tax_step(w, c, income)
    \/ \E w \in Workers : total_reduction_step(w)
    \/ \E w \in Workers : total_return_step(w)
    \/ \E w \in Workers : next_call(w)

Spec == Init /\ [][Next]_vars

\* the calculators of the two supported years, evaluated on many incomes
EvalInit ==
    /\ calcs = << [year |-> 2023, tax_brackets |-> get_tax_brackets([year |-> 2023]).val],
                  [year |-> 2024, tax_brackets |-> get_tax_brackets([year |-> 2024]).val] >>
    /\ ctor = [year |-> 2024, exc |-> "none", obj |-> 2]
    /\ frames = [w \in Workers |-> IdleFrame]
    /\ RunInit
    /\ GenInit
    /\ EngineInit
    /\ TesterInit
    /\ PageInit
    /\ RecordInit

EvalNext ==
    \/ \E w \in Workers, c \in 1 .. Len(calcs) : call_get_tax_brackets(w, c)
    \/ \E w \in Workers, c \in 1 .. Len(calcs), income \in TaxIncomes :
          call_calculate_tax(w, c, income)
    \/ \E w \in Workers, c \in 1 .. Len(calcs), income \in TaxIncomes :
          call_calculate_tax_reduction(w, c, income)
    \/ \E w \in Workers, c \in 1 .. Len(calcs), income \in TaxIncomes :
          total_tax_step(w, c, income)
    \/ \E w \in Workers : total_reduction_step(w)
    \/ \E w \in Workers : total_return_step(w)
    \/ \E w \in Workers : next_call(w)

SpecEval == EvalInit /\ [][EvalNext]_vars

\* run_tests
RunNext ==
    \/ run_generate
    \/ run_open
    \/ run_open_raises
    \/ run_fill
    \/ run_fill_raises
    \/ run_extract
    \/ run_extract_raises
    \/ run_finally
    \/ run_return

SpecRun == Init /\ [][RunNext]_vars

\* generate_test_cases, called once, or twice with a seeded generator
GenSteps ==
    \/ gen_base
    \/ gen_nb
    \/ gen_child
    \/ gen_append
    \/ gen_return

GenNext ==
    \/ \E s \in Seeds : random_seed(s)
    \/ \E call \in Calls(rng.seed # 0) : gen_call(call)
    \/ gen_base
    \/ gen_nb
    \/ gen_child
    \/ gen_append
    \/ gen_return
    \/ gen_restart

SpecGen == Init /\ [][GenNext]_vars

\* the statements of a call that has started are eventually executed
SpecGenFair == Init /\ [][GenNext]_vars /\ WF_vars(GenSteps)

\* the orchestrator: startup, then evaluations of households
OrchNext ==
    \/ \E deps \in Declarations : declare_dependencies(deps)
    \/ topological_sort_step
    \/ topological_sort_done
    \/ dependency_cycle
    \/ \E household \in Households : evaluate(household)
    \/ compute_start
    \/ compute_finish
    \/ evaluate_return

SpecOrch == Init /\ [][OrchNext]_vars

\* the differential validator: calls of compare
CmpNext ==
    \/ compare
    \/ compare_field
    \/ compare_return

SpecCmp == Init /\ [][CmpNext]_vars

\* the methods of a TaxCalculatorTest object called in any order
TesterNext ==
    \/ TaxCalculatorTest
    \/ \E element_id \in CalledSelects :
          \E text \in Options(element_id) \cup {OtherText} :
             call_select_by_text(element_id, text)
    \/ \E selector \in CalledInputs, value \in CalledValues :
          call_fill_field(selector, value)
    \/ call_close

SpecTester == Init /\ [][TesterNext]_vars

\* the tooltips of the page: clicks, hovers, keys and resizes in any order
TooltipNext ==
    \/ \E monObjet \in Tooltips : call_afficheTooltip(monObjet)
    \/ \E monObjet \in Tooltips : call_afficheTooltipMobile(monObjet)
    \/ \E monObjet \in Tooltips : call_cacheTooltip(monObjet)
    \/ \E monObjet \in Tooltips : call_afficheFeuille(monObjet)
    \/ \E monObjet \in Tooltips : call_cacheFeuille(monObjet)
    \/ \E monObjet \in Tooltips : call_hover_in(monObjet)
    \/ \E monObjet \in Tooltips : call_hover_out(monObjet)
    \/ \E key \in Keys : keydown_event(key)
    \/ \E width \in Widths : resize(width)

SpecTooltip == Init /\ [][TooltipNext]_vars

\* the buttons of the page, clicked in any order
BoutonNext ==
    \/ \E monObjet \in BlocObjects : call_ouvrirBloc(monObjet)
    \/ \E monObjet \in PlusObjects : call_ouvrirPlus(monObjet)

SpecBouton == Init /\ [][BoutonNext]_vars

\* the assembly of the result record of one evaluation
RecordNext ==
    \/ assemble_start
    \/ assemble_program
    \/ assemble_return

SpecRecord == Init /\ [][RecordNext]_vars

----------------------------------------------------------------------------
(* Properties *)

SupportedYears == {2023, 2024}

Amounts == {"calculate_tax", "calculate_tax_reduction", "calculate_total_tax"}

\* worker w holds the value returned by a call of op
HasReturned(w, op) ==
    /\ frames[w].pc = "returned"
    /\ frames[w].op = op
    /\ frames[w].exc = "none"

YearOf(w) == calcs[frames[w].self].year

\* the bracket table of a supported year
YearTable(year) == get_tax_brackets([year |-> year]).val

\* a calculator of the year on which nothing has been called yet
Fresh(year) == [year |-> year, tax_brackets |-> YearTable(year)]

\* sum over the brackets of S of rate * (min(income, upper) - lower)
RECURSIVE BracketSum(_, _, _)
BracketSum(S, table, income) ==
    IF S = {} THEN 0
    ELSE LET i == CHOOSE j \in S : TRUE
             upto == IF table[i].max = Inf \/ income <= table[i].max
                     THEN income ELSE table[i].max
         IN table[i].rate * (upto - table[i].min)
            + BracketSum(S \ {i}, table, income)

\* C1: for each supported year and every income, calculate_tax(income) is the
\* sum, over exactly the brackets of that year's table whose lower bound is
\* strictly below income, of rate * (min(income, upper) - lower).
C1_BracketFormula ==
    \A w \in Workers :
        HasReturned(w, "calculate_tax") =>
            /\ YearOf(w) \in SupportedYears
            /\ LET table == YearTable(YearOf(w))
                   below == { i \in 1 .. Len(table) : table[i].min < frames[w].income }
               IN frames[w].ret = BracketSum(below, table, frames[w].income)

\* an income in the third bracket of 2023 and one in the top bracket of 2024
\* have been taxed
C1_Witness ==
    /\ HasReturned("w1", "calculate_tax") /\ YearOf("w1") = 2023
    /\ frames["w1"].income = 92581 /\ frames["w1"].ret = 162014900
    /\ HasReturned("w2", "calculate_tax") /\ YearOf("w2") = 2024
    /\ frames["w2"].income = 120000

\* C2: in run_tests, when extract_results is called for a case, every input
\* of the form (Situation, Revenu1, AgeAdulte1, Revenu2, AgeAdulte2, NbEnfants
\* and AgeEnfant, Frais, type_garde of each child) holds the value of that
\* case, whatever cases were processed before.
C2_FormHoldsCurrentCase ==
    run.pc = "extract" =>
        LET case == test_cases[run.k] IN
        /\ form["Situation"] = case.situation
        /\ form["Revenu1"] = ToString(case.revenu1)
        /\ form["AgeAdulte1"] = ToString(case.age1)
        /\ form["Revenu2"] = ToString(case.revenu2)
        /\ form["AgeAdulte2"] = ToString(case.age2)
        /\ form["NbEnfants"] = nb_enfants_text(case.nb_enfants)
        /\ \A i \in 1 .. case.nb_enfants :
              /\ form[AgeEnfant(i)] = ToString(case[age_enfant_key(i)])
              /\ form[Frais(i)] = ToString(case[frais_key(i)])
              /\ form[type_garde(i)] = case[type_garde_key(i)]

\* C3: two calls of the same method with equal income, on the same or on two
\* separately constructed calculators of the same year, return identical
\* results, whatever was called in between.
C3_Deterministic ==
    \A w1, w2 \in Workers :
        \A op \in Amounts :
            ( /\ HasReturned(w1, op) /\ HasReturned(w2, op)
              /\ frames[w1].income = frames[w2].income
              /\ YearOf(w1) = YearOf(w2) )
            => frames[w1].ret = frames[w2].ret

\* the same total-tax evaluation has returned on two separately constructed
\* calculators of 2023
C3_Witness ==
    /\ HasReturned("w1", "calculate_total_tax")
    /\ HasReturned("w2", "calculate_total_tax")
    /\ frames["w1"].self # frames["w2"].self
    /\ YearOf("w1") = 2023 /\ YearOf("w2") = 2023
    /\ frames["w1"].income = 80000 /\ frames["w2"].income = 80000

\* C4: constructing a calculator with a year other than 2023 or 2024 raises,
\* produces no calculator, and no default table is substituted: every
\* calculator that exists is of a supported year and holds that year's table.
C4_UnsupportedYearRaises ==
    /\ ctor.year \in YearInputs \ SupportedYears =>
          ctor.exc = "ValueError" /\ ctor.obj = 0
    /\ ctor.year \in SupportedYears =>
          ctor.exc = "none" /\ ctor.obj = Len(calcs) /\ calcs[ctor.obj].year = ctor.year
    /\ \A c \in 1 .. Len(calcs) :
          /\ calcs[c].year \in SupportedYears
          /\ calcs[c].tax_brackets = YearTable(calcs[c].year)

\* the constructor has raised for 2025 after a calculator had been constructed
C4_Witness ==
    /\ ctor.year = 2025 /\ ctor.exc = "ValueError"
    /\ Len(calcs) = 1

\* the rate of the top bracket of the year
TopRate(year) == YearTable(year)[Len(YearTable(year))].rate

\* C5: for each supported year calculate_tax is non-decreasing in income,
\* and one more dollar of income never raises it by more than the top
\* bracket rate times that dollar, at the bracket edges too.
C5_TaxMonotoneContinuous ==
    \A w1, w2 \in Workers :
        ( /\ HasReturned(w1, "calculate_tax") /\ HasReturned(w2, "calculate_tax")
          /\ YearOf(w1) = YearOf(w2)
          /\ frames[w1].income <= frames[w2].income )
        => /\ frames[w1].ret <= frames[w2].ret
           /\ frames[w2].income = frames[w1].income + 1 =>
                 frames[w2].ret - frames[w1].ret <= TopRate(YearOf(w1))

\* the tax at the first edge of 2023 and one dollar above it
C5_Witness ==
    /\ HasReturned("w1", "calculate_tax") /\ HasReturned("w2", "calculate_tax")
    /\ YearOf("w1") = 2023 /\ YearOf("w2") = 2023
    /\ frames["w1"].income = 46295 /\ frames["w2"].income = 46296
    /\ frames["w2"].ret - frames["w1"].ret = 2000

\* C6: for each supported year calculate_total_tax is non-decreasing in
\* income: for all incomes 0 <= a <= b, total(a) <= total(b).
C6_TotalTaxMonotone ==
    \A w1, w2 \in Workers :
        ( /\ HasReturned(w1, "calculate_total_tax")
          /\ HasReturned(w2, "calculate_total_tax")
          /\ YearOf(w1) = YearOf(w2)
          /\ 0 <= frames[w1].income
          /\ frames[w1].income <= frames[w2].income )
        => frames[w1].ret <= frames[w2].ret

\* C7: for an income of zero and each supported year, calculate_tax,
\* calculate_tax_reduction and calculate_total_tax all return zero.
C7_ZeroIncomeZeroTax ==
    \A w \in Workers :
        \A op \in Amounts :
            HasReturned(w, op) /\ frames[w].income = 0 => frames[w].ret = 0

\* the total tax and the reduction of income 0 have been returned
C7_Witness ==
    /\ HasReturned("w1", "calculate_total_tax") /\ frames["w1"].income = 0
    /\ HasReturned("w2", "calculate_tax_reduction") /\ frames["w2"].income = 0
    /\ YearOf("w1") # YearOf("w2")

\* C8: the table returned by get_tax_brackets starts at 0, every bracket has
\* lower < upper, each bracket starts where the previous one ends, and the
\* last bracket is unbounded.
C8_BracketsPartition ==
    \A w \in Workers :
        HasReturned(w, "get_tax_brackets") =>
            LET table == frames[w].table IN
            /\ Len(table) >= 1
            /\ table[1].min = 0
            /\ \A i \in 1 .. Len(table) : table[i].min < table[i].max
            /\ \A i \in 2 .. Len(table) : table[i].min = table[i - 1].max
            /\ table[Len(table)].max = Inf
            /\ \A i \in 1 .. Len(table) - 1 : table[i].max # Inf

\* get_tax_brackets has returned for a calculator of each year
C8_Witness ==
    /\ HasReturned("w1", "get_tax_brackets") /\ YearOf("w1") = 2023
    /\ HasReturned("w2", "get_tax_brackets") /\ YearOf("w2") = 2024

\* C9: calls never change a calculator: its year and tax_brackets stay what
\* they were right after construction, and get_tax_brackets returns a table
\* equal to the stored one.
C9_ParametersNeverMutated ==
    /\ [][ \A c \in 1 .. Len(calcs) :
              c <= Len(calcs') /\ calcs'[c] = calcs[c] ]_vars
    /\ [](\A w \in Workers :
              HasReturned(w, "get_tax_brackets") =>
                  frames[w].table = calcs[frames[w].self].tax_brackets)

\* get_tax_brackets has returned on a calculator on which the total tax has
\* been evaluated as well
C9_Witness ==
    /\ HasReturned("w1", "calculate_total_tax")
    /\ HasReturned("w2", "get_tax_brackets")
    /\ frames["w1"].self = frames["w2"].self

\* what a call returns when it is the only call made on a new calculator
Alone(op, year, income) ==
    IF op = "calculate_tax" THEN calculate_tax(Fresh(year), income)
    ELSE IF op = "calculate_tax_reduction"
    THEN calculate_tax_reduction(Fresh(year), income).val
    ELSE calculate_total_tax(Fresh(year), income).val

\* C10: in every interleaving of evaluations, each evaluation returns the
\* amount it returns when run alone, and a step of one evaluation changes
\* neither a calculator nor the frame of another evaluation.
C10_Independent ==
    /\ [](\A w \in Workers : \A op \in Amounts :
              HasReturned(w, op) =>
                  frames[w].ret = Alone(op, YearOf(w), frames[w].income))
    /\ [][ \A w \in Workers :
              frames'[w] # frames[w] =>
                  /\ \A v \in Workers \ {w} : frames'[v] = frames[v]
                  /\ \A c \in 1 .. Len(calcs) : calcs'[c] = calcs[c] ]_vars

\* a 2023 total-tax evaluation has returned while an evaluation on a 2024
\* calculator, constructed later, is between its two inner calls
C10_Witness ==
    /\ HasReturned("w1", "calculate_total_tax") /\ YearOf("w1") = 2023
    /\ frames["w2"].pc = "total_return" /\ YearOf("w2") = 2024
    /\ frames["w1"].self < frames["w2"].self

\* the cases generate_test_cases has appended to its list so far
Produced == { gen.test_cases[j] : j \in 1 .. Len(gen.test_cases) }

BaseKeys == {"situation", "revenu1", "age1", "revenu2", "age2", "nb_enfants"}

ChildKeys(i) == {age_enfant_key(i), frais_key(i), type_garde_key(i)}

\* C11: generate_test_cases(n) terminates for every n >= 0 and returns a
\* list of exactly n cases.
C11_TerminatesWithNCases ==
    /\ [](gen.pc = "done" => Len(gen.test_cases) = gen.nobs)
    /\ (gen.pc \notin {"idle", "done"}) ~> (gen.pc = "done")

\* a call with nobs = 2 has returned two cases, the second with children
C11_Witness ==
    /\ gen.pc = "done" /\ gen.nobs = 2 /\ Len(gen.test_cases) = 2
    /\ gen.test_cases[2].nb_enfants = 1

\* C12: a case of 'Personne vivant seule', 'Retraite vivant seul' or 'Couple
\* de retraites' has nb_enfants = 0 and no per-child attribute; in every case
\* nb_enfants is in 0..3 and the per-child attributes exist exactly for the
\* children 1..nb_enfants.
C12_ChildrenOnlyWherePermitted ==
    \A case \in Produced :
        /\ case.situation \in {"Personne vivant seule", "Retraite vivant seul",
                               "Couple de retraites"}
              => case.nb_enfants = 0 /\ DOMAIN case = BaseKeys
        /\ case.nb_enfants \in 0 .. 3
        /\ DOMAIN case = BaseKeys \cup UNION { ChildKeys(i) : i \in 1 .. case.nb_enfants }

\* an unseeded call has returned a couple with three children
C12_Witness ==
    /\ gen.pc = "done" /\ Len(gen.test_cases) = 1
    /\ gen.test_cases[1].situation = "Couple"
    /\ gen.test_cases[1].nb_enfants = 3
    /\ rng.seed = 0

C14_AdultsMatchSituation ==
    \A case \in Produced :
        LET couple == case.situation \in {"Couple", "Couple de retraites"}
            ages == IF case.situation \in {"Retraite vivant seul", "Couple de retraites"}
                    THEN {65, 75, 85} ELSE {25, 35, 45, 55}
        IN /\ couple <=> case.age2 # 0
           /\ couple => case.revenu2 \in Elems(revenus) /\ case.age2 \in ages
           /\ ~couple => case.revenu2 = 0 /\ case.age2 = 0
           /\ case.age1 \in ages

\* a retired person alone and a couple of workers are in one returned list
C14_Witness ==
    /\ gen.pc = "done" /\ Len(gen.test_cases) = 2
    /\ gen.test_cases[1].situation = "Retraite vivant seul"
    /\ gen.test_cases[1].age1 = 65
    /\ gen.test_cases[2].situation = "Couple"
    /\ gen.test_cases[2].age2 = 35 /\ gen.test_cases[2].revenu2 = 15000

----------------------------------------------------------------------------
(* run_tests: inputs, errors and result records *)

\* run_tests is over: it has returned or its exception has left it
RunOver == run.pc \in {"done", "raised"}

NoDuplicates(s) == \A i, j \in 1 .. Len(s) : s[i] = s[j] => i = j

\* C16: after run_tests, every case obtained from generate_test_cases is equal
\* to what it was when generated (same keys, same values), and no case has
\* been entered into the form more than once.
C16_InputsNotMutated ==
    RunOver =>
        /\ test_cases = generated
        /\ NoDuplicates(run.filled)

\* C17: once a form interaction or the extraction of the results has raised
\* for case k, run_tests never returns a result list, the exception leaves
\* run_tests through the finally clause, no record exists for case k or a
\* later one, and no case after k is entered into the form or updated.
C17_ErrorsPropagate ==
    (run.exc # "none" /\ run.k >= 1) =>
        /\ ~run.returned
        /\ run.pc \in {"finally", "raised"}
        /\ run.pc = "raised" => driver = "quit"
        /\ Len(results) = run.k - 1
        /\ \A j \in 1 .. Len(run.filled) : run.filled[j] <= run.k
        /\ \A j \in run.k .. Len(test_cases) : test_cases[j] = generated[j]

\* the first of two cases has failed: the exception has left run_tests, the
\* browser is closed and the second case was never entered
C17_Witness ==
    /\ run.pc = "raised" /\ run.exc = WebDriverException
    /\ run.k = 1 /\ Len(test_cases) = 2
    /\ run.filled = <<1>>
    /\ results = <<>>

\* C18: when run_tests returns without error, results holds one record per
\* generated case, in the order of generation; each record holds the inputs
\* of its case unchanged and, next to them, the four fields RD_new,
\* QC_total_new, CA_total_new and Cotisation_new, each with the value read
\* from the form element of that name.
C18_OneRecordPerCase ==
    (run.pc = "done" /\ run.exc = "none") =>
        /\ Len(results) = Len(generated)
        /\ \A k \in 1 .. Len(results) :
              /\ DOMAIN results[k] = DOMAIN generated[k] \cup Elems(result_fields)
              /\ \A key \in DOMAIN generated[k] : results[k][key] = generated[k][key]
              /\ \A f \in Elems(result_fields) : results[k][f].field = f
        /\ Cardinality(Elems(result_fields)) = 4
        /\ Elems(result_fields) =
              {"RD_new", "QC_total_new", "CA_total_new", "Cotisation_new"}

\* run_tests has returned the records of two cases of different situations
C18_Witness ==
    /\ run.pc = "done" /\ run.returned
    /\ Len(results) = 2
    /\ generated[1].situation # generated[2].situation
    /\ results[1].situation = generated[1].situation
    /\ results[2].situation = generated[2].situation
    /\ results[2].RD_new.field = "RD_new"

----------------------------------------------------------------------------
(* The orchestrator and the differential validator *)

\* the programs evaluated before position pos of the order
EvaluatedBefore(pos) == { orch.order[j] : j \in 1 .. pos - 1 }

\* C19: within one evaluation at most one calculator runs at a time; a
\* calculator that runs has every program it depends on completed, and its
\* prior_results hold exactly the results of the programs evaluated before
\* it; the calculators are taken in a topological order of the graph.
C19_TopologicalOneAtATime ==
    orch.pc = "eval" =>
        /\ Cardinality(orch.running) <= 1
        /\ DOMAIN orch.results = EvaluatedBefore(orch.pos)
        /\ \A i, j \in 1 .. Len(orch.order) :
              orch.order[j] \in orch.deps[orch.order[i]] => j < i
        /\ \A p \in DOMAIN orch.results :
              DOMAIN orch.results[p].read = orch.deps[p]
        /\ \A p \in orch.running :
              /\ p = orch.order[orch.pos]
              /\ orch.deps[p] \subseteq DOMAIN orch.results
              /\ DOMAIN orch.prior_results = EvaluatedBefore(orch.pos)
              /\ \A q \in DOMAIN orch.prior_results :
                    orch.prior_results[q] = orch.results[q]

\* the credit runs last of a chain: the tax and the net income are completed
\* and are its prior results
C19_Witness ==
    /\ orch.pc = "eval"
    /\ orch.running = {"solidarity_credit"}
    /\ orch.deps["solidarity_credit"] = {"net_income"}
    /\ orch.deps["net_income"] = {"QC_income_tax"}
    /\ DOMAIN orch.prior_results = {"QC_income_tax", "net_income"}
    /\ orch.prior_results["net_income"].read =
          [q \in {"QC_income_tax"} |-> orch.prior_results["QC_income_tax"]]

\* the fields whose amounts are not equal within the tolerance
Diverging(engine, oracle) ==
    { f \in Elems(result_fields) : ~(abs(engine[f] - oracle[f]) < Tolerance) }

\* C20: compare never raises; the report it returns lists a field exactly
\* when the absolute difference of the engine's and the oracle's amounts is
\* not below the tolerance, once each, with both amounts and their signed
\* difference; the report is empty exactly when no field diverges.
C20_MismatchIffBeyondTolerance ==
    /\ cmp.exc = "none"
    /\ cmp.pc = "done" =>
          /\ { m.field : m \in Elems(cmp.report) } = Diverging(cmp.engine, cmp.oracle)
          /\ NoDuplicates(cmp.report)
          /\ \A m \in Elems(cmp.report) :
                /\ m.engine = cmp.engine[m.field]
                /\ m.oracle = cmp.oracle[m.field]
                /\ m.difference = m.engine - m.oracle
          /\ (cmp.report = <<>>) <=>
                \A f \in Elems(result_fields) :
                   abs(cmp.engine[f] - cmp.oracle[f]) < Tolerance

\* a report with one field exactly at the tolerance, listed with a negative
\* difference, and one field just below it, not listed
C20_Witness ==
    /\ cmp.pc = "done"
    /\ Len(cmp.report) = 1
    /\ cmp.report[1].field = "QC_total_new"
    /\ cmp.report[1].difference = 0 - Tolerance
    /\ cmp.engine["RD_new"] - cmp.oracle["RD_new"] = Tolerance - 1

----------------------------------------------------------------------------
(* The calculator: total tax, year support and the reduction *)

\* C23: for each supported year and every income >= 0, the amount returned
\* by calculate_total_tax is not negative.
C23_TotalTaxNonNegative ==
    \A w \in Workers :
        HasReturned(w, "calculate_total_tax") /\ frames[w].income >= 0
            => frames[w].ret >= 0

\* calculate_tax_reduction accepts the year
ReductionAccepts(year) == calculate_tax_reduction([year |-> year], 0).exc = "none"

\* C25: calculate_tax_reduction accepts the year of every calculator that
\* get_tax_brackets let the constructor build, and no year that it refused;
\* so no call on a constructed calculator ends with an error, after any
\* sequence of calls, and every call that is over has returned an amount.
C25_ConstructedNeverRaises ==
    /\ \A c \in 1 .. Len(calcs) : ReductionAccepts(calcs[c].year)
    /\ ctor.exc # "none" => ~ReductionAccepts(ctor.year)
    /\ \A w \in Workers : frames[w].exc = "none"

\* a total tax of 2024 and a reduction of 2023 have been returned, each after
\* the constructor had refused a year
C25_Witness ==
    /\ HasReturned("w1", "calculate_total_tax") /\ YearOf("w1") = 2024
    /\ HasReturned("w2", "calculate_tax_reduction") /\ YearOf("w2") = 2023
    /\ frames["w1"].income = 120000
    /\ ctor.exc = "ValueError"

ReductionThreshold(year) == IF year = 2023 THEN 16143 ELSE 16400

\* C26: for each supported year and every income >= 0 the reduction is
\* 0.165 * min(income, threshold), threshold 16143 in 2023 and 16400 in
\* 2024; it lies between 0 and 0.165 * threshold, does not decrease with
\* income, and one more dollar never raises it by more than 0.165.
C26_ReductionFormula ==
    \A w1, w2 \in Workers :
        ( /\ HasReturned(w1, "calculate_tax_reduction") /\ frames[w1].income >= 0
          /\ HasReturned(w2, "calculate_tax_reduction")
          /\ YearOf(w1) = YearOf(w2)
          /\ frames[w1].income <= frames[w2].income )
        => LET threshold == ReductionThreshold(YearOf(w1))
               capped == IF frames[w1].income < threshold
                         THEN frames[w1].income ELSE threshold
           IN /\ frames[w1].ret = 1650 * capped
              /\ 0 <= frames[w1].ret /\ frames[w1].ret <= 1650 * threshold
              /\ frames[w1].ret <= frames[w2].ret
              /\ frames[w2].income = frames[w1].income + 1 =>
                    frames[w2].ret - frames[w1].ret <= 1650

\* the reductions of 2024 at the threshold of 2023 plus one and at its own
\* threshold plus one
C26_Witness ==
    /\ HasReturned("w1", "calculate_tax_reduction") /\ YearOf("w1") = 2024
    /\ HasReturned("w2", "calculate_tax_reduction") /\ YearOf("w2") = 2024
    /\ frames["w1"].income = 16144 /\ frames["w1"].ret = 16144 * 1650
    /\ frames["w2"].income = 16401 /\ frames["w2"].ret = 16400 * 1650

\* C27: every case of household type 'Famille monoparentale' produced by
\* generate_test_cases has at least one child.
C27_SingleParentHasChild ==
    \A case \in Produced :
        case.situation = "Famille monoparentale" => case.nb_enfants >= 1

----------------------------------------------------------------------------
(* The form driver: sessions and selections *)

\* C24: when run_tests is over, on every path, a browser session that was
\* opened has been closed, and driver.quit() has been called exactly once.
C24_SessionClosedOnce ==
    (RunOver /\ driver # "none") => (driver = "quit" /\ run.quits = 1)

\* C22: whenever select_by_text has been called with a text that no option
\* of the target element has, the call has ended with an error.
C22_NoMatchRaises ==
    (last_call.op = "select_by_text"
        /\ last_call.text \notin Options(last_call.element_id))
        => last_call.exc # "none"

----------------------------------------------------------------------------
(* commun.js: tooltips and buttons *)

\* the element is shown: it has the class visible and not the class cacher
IsVisible(el) == "visible" \in el.class /\ "cacher" \notin el.class

\* C28: after any sequence of calls and events at any width, for every
\* tooltip the aria-hidden of the text bubble is "false" exactly when the
\* bubble has the class visible, and the aria-expanded of the link is "true"
\* exactly when the bubble or the sheet of the tooltip is visible.
C28_AriaAgreesWithShown ==
    \A id \in Tooltips :
        /\ dom["texte"][id].aria_hidden = "false" <=> "visible" \in dom["texte"][id].class
        /\ dom["lien"][id].aria_expanded = "true"
              <=> (IsVisible(dom["texte"][id]) \/ IsVisible(dom["feuille"][id]))

\* C29: at a width of 600 or more, right after a hover-in on a tooltip its
\* text bubble and triangle are visible and those of every other tooltip
\* are hidden, whatever preceded; right after an Escape or Tab keydown no
\* text bubble and no triangle is visible.
C29_HoverShowsOnlyOne ==
    /\ (event.name = "hover_in" /\ event.width >= 600) =>
          \A id \in Tooltips :
             /\ IsVisible(dom["texte"][id]) <=> id = event.id
             /\ IsVisible(dom["triangle"][id]) <=> id = event.id
    /\ (event.name = "keydown" /\ event.id \in {"Escape", "Tab"}) =>
          \A id \in Tooltips :
             ~IsVisible(dom["texte"][id]) /\ ~IsVisible(dom["triangle"][id])

\* the pointer has entered t1 while the sheet of t2, opened in a narrow
\* window, is still shown
C29_Witness ==
    /\ event = [name |-> "hover_in", id |-> "t1", width |-> 600]
    /\ IsVisible(dom["texte"]["t1"]) /\ IsVisible(dom["triangle"]["t1"])
    /\ IsVisible(dom["feuille"]["t2"])
    /\ ~IsVisible(dom["texte"]["t2"])

\* what the button of the object controls is shown
Shown(o) ==
    IF o \in BlocObjects THEN boutons[o].display # "none"
    ELSE "visible" \in boutons[o].class /\ "cacher" \notin boutons[o].class

----------------------------------------------------------------------------
(* The Disposable Income Result *)

\* C21: in the record returned for a household, the grand total equals the
\* gross income minus the stored tax and contribution sub-totals plus the
\* stored transfer and credit sub-totals.
C21_GrandTotalFromSubTotals ==
    assembly.pc = "done" =>
        assembly.grand_total =
            assembly.gross_income
            - (assembly.sub_totals.QC_taxes + assembly.sub_totals.CA_taxes
               + assembly.sub_totals.contributions)
            + (assembly.sub_totals.QC_transfers + assembly.sub_totals.CA_transfers)

\* a record with a tax, a contribution and a transfer that are not zero, and
\* a grand total below the gross income
C21_Witness ==
    /\ assembly.pc = "done"
    /\ assembly.gross_income = 300000000
    /\ assembly.sub_totals.QC_taxes = 25000000
    /\ assembly.sub_totals.contributions = 10000000
    /\ assembly.sub_totals.CA_transfers = 10000000
    /\ assembly.grand_total = 275000000

============================================================================
